---- MODULE Spec2Model ----
(***************************************************************************)
(* A model of "Performance Testing/locustfile.py": the three scenarios of  *)
(* UserBehavior (a SequentialTaskSet), the session-local Statistics, the   *)
(* scheduler's aggregate as the scenarios feed it through the response     *)
(* context manager, and the quitting listener on_test_end with the two     *)
(* reports it writes.                                                      *)
(*                                                                         *)
(* Python values are modelled by what the code does with them:             *)
(*   - a JSON value is a record with its type, and response.json(),        *)
(*     v['msg'], 'token' in v and v.get('msg', d) are operators that       *)
(*     return either a value or the exception Python raises;               *)
(*   - an f-string is the sequence of its literal and interpolated parts;  *)
(*   - a float quotient is the pair <<numerator, denominator>> and is      *)
(*     compared by cross-multiplication (the floats of the code agree      *)
(*     with the exact comparison for every aggregate in reach).            *)
(***************************************************************************)
EXTENDS Integers, Sequences, FiniteSets, TLC

\* ------------------------------------------------------------------ bounds
NumSessions == 2
MaxSteps == 4
RandomGrain == 4
MaxAggRequests == 100

\* ------------------------------------------------------- program constants
FAILURE_THRESHOLD == 1
MIN_REQUESTS == 10
MAX_RESPONSE_TIME == 2000
TokenLength == 8
PhoneLength == 10

Sessions == 1..NumSessions

VARIABLES
    registered_users,  \* [Sessions -> Seq(user)]      self.registered_users
    stats,             \* [Sessions -> Statistics]     self.stats
    task,              \* [Sessions -> 1..3]           next task of the SequentialTaskSet
    inflight,          \* [Sessions -> request]        the POST a scenario waits on
    logged,            \* [Sessions -> [status -> Nat]] lines of bdd_load_test.log
    last,              \* what the scenario execution that finished last did
    started,           \* scenario executions started so far (bounded by MaxSteps)
    env,               \* environment.stats.total, the scheduler's aggregate
    running,           \* the runner still schedules tasks
    hpc,               \* position of on_test_end
    exit_code,         \* environment.process_exit_code
    report,            \* the local variables of on_test_end
    files              \* files under load_test_reports, in the order written

vars == <<registered_users, stats, task, inflight, logged, last, started,
          env, running, hpc, exit_code, report, files>>

sessionVars == <<registered_users, stats, task, inflight, logged, last, started>>
handlerVars == <<hpc, exit_code, report, files>>

\* --------------------------------------------------------------- exceptions
NoExc == "none"

\* A handler written "except ValueError": it catches the decoder's error only.
CatchesValueError(exc) == exc = "JSONDecodeError"

\* "except Exception" catches every exception the scenario bodies can raise.
Catches(exc) == exc \in {"JSONDecodeError", "KeyError", "TypeError", "AttributeError"}

\* -------------------------------------------------------------- JSON values
JsonKeys == {"msg", "token"}

NoFields == [k \in JsonKeys |-> ""]

JDict(keys, msg) ==
    [type |-> "dict", keys |-> keys,
     fields |-> [k \in JsonKeys |-> IF k = "msg" /\ k \in keys THEN msg
                                     ELSE IF k \in keys THEN "abc123" ELSE ""],
     items |-> <<>>, chars |-> <<>>]
JList(items) == [type |-> "list", keys |-> {}, fields |-> NoFields, items |-> items, chars |-> <<>>]
JStr(chars)  == [type |-> "str",  keys |-> {}, fields |-> NoFields, items |-> <<>>, chars |-> chars]
JNum         == [type |-> "num",  keys |-> {}, fields |-> NoFields, items |-> <<>>, chars |-> <<>>]
JNull        == [type |-> "null", keys |-> {}, fields |-> NoFields, items |-> <<>>, chars |-> <<>>]

\* The characters of the string literals the scenarios look for.
Chars(s) ==
    CASE s = "token" -> <<"t", "o", "k", "e", "n">>
      [] s = "msg"   -> <<"m", "s", "g">>
      [] OTHER       -> <<>>

\* Python's  needle in hay  on two strings: substring search.
IsSubstring(needle, hay) ==
    \E i \in 0..Len(hay) :
        /\ i + Len(needle) <= Len(hay)
        /\ \A j \in 1..Len(needle) : hay[i + j] = needle[j]

\* response.json(): the decoded body, or the decoder's exception.  A
\* connection-level failure gives a response with status_code 0 and no
\* content, whose json() raises as for any non-JSON body.
json(response) ==
    IF response.decodes
    THEN [exc |-> NoExc, val |-> response.value]
    ELSE [exc |-> "JSONDecodeError", val |-> JNull]

\* v[key]
GetItem(v, key) ==
    IF v.type = "dict"
    THEN IF key \in v.keys
         THEN [exc |-> NoExc, val |-> v.fields[key]]
         ELSE [exc |-> "KeyError", val |-> ""]
    ELSE [exc |-> "TypeError", val |-> ""]

\* key in v
Contains(key, v) ==
    CASE v.type = "dict" -> [exc |-> NoExc, val |-> key \in v.keys]
      [] v.type = "list" -> [exc |-> NoExc, val |-> \E i \in 1..Len(v.items) : v.items[i] = key]
      [] v.type = "str"  -> [exc |-> NoExc, val |-> IsSubstring(Chars(key), v.chars)]
      [] OTHER           -> [exc |-> "TypeError", val |-> FALSE]

\* v.get(key, default)
DictGet(v, key, default) ==
    IF v.type = "dict"
    THEN [exc |-> NoExc, val |-> IF key \in v.keys THEN v.fields[key] ELSE default]
    ELSE [exc |-> "AttributeError", val |-> ""]

\* response.json()['msg'],  'token' in response.json()  and
\* response.json().get('msg', default): the body is decoded anew each time.
JsonMsg(response) ==
    LET j == json(response)
    IN  IF j.exc # NoExc THEN [exc |-> j.exc, val |-> ""] ELSE GetItem(j.val, "msg")

JsonHasToken(response) ==
    LET j == json(response)
    IN  IF j.exc # NoExc THEN [exc |-> j.exc, val |-> FALSE] ELSE Contains("token", j.val)

JsonGetMsg(response, default) ==
    LET j == json(response)
    IN  IF j.exc # NoExc THEN [exc |-> j.exc, val |-> ""] ELSE DictGet(j.val, "msg", default)

\* ------------------------------------------------------------ random source
\* random.choices(population, k) draws k characters; a draw is the stream the
\* random source yields, of which the first k are taken.
TokenDraws ==
    { [i \in 1..TokenLength |-> "a"],
      [i \in 1..TokenLength |-> IF i % 2 = 1 THEN "q" ELSE "z"] }
DigitDraws ==
    { [i \in 1..PhoneLength |-> IF i % 3 = 0 THEN "0" ELSE "7"] }

\* string.ascii_lowercase and string.digits.
string_ascii_lowercase ==
    << "a", "b", "c", "d", "e", "f", "g", "h", "i", "j", "k", "l", "m",
       "n", "o", "p", "q", "r", "s", "t", "u", "v", "w", "x", "y", "z" >>
string_digits == << "0", "1", "2", "3", "4", "5", "6", "7", "8", "9" >>

\* random.choices(population, k=...): each random() in [0, 1) picks
\* population[floor(random() * len(population))].  A stream holds the
\* numerators of the numbers the source yields, over RandomGrain.
Streams ==
    { [i \in 1..PhoneLength |-> (a * i + b) % RandomGrain] : a, b \in 0..(RandomGrain - 1) }

choices(population, stream) ==
    [i \in DOMAIN stream |-> population[((stream[i] * Len(population)) \div RandomGrain) + 1]]

\* generate_random_user with a call of generate_random_string of its own for
\* the email.
generate_random_user_fresh(draw, digits) ==
    LET random_string == [i \in 1..TokenLength |-> draw[i]]
        second_string == [i \in 1..TokenLength |-> digits[i]]
    IN  [fullName |-> <<"Test User ", random_string>>,
         userName |-> <<"testuser_", random_string>>,
         email    |-> <<"test_", second_string, "@example.com">>,
         password |-> <<"password_", random_string>>,
         phone    |-> [i \in 1..PhoneLength |-> digits[i]]]

generate_random_string(draw, length) == [i \in 1..length |-> draw[i]]

generate_random_user(draw, digits) ==
    LET random_string == generate_random_string(draw, TokenLength)
    IN  [fullName |-> <<"Test User ", random_string>>,
         userName |-> <<"testuser_", random_string>>,
         email    |-> <<"test_", random_string, "@example.com">>,
         password |-> <<"password_", random_string>>,
         phone    |-> generate_random_string(digits, PhoneLength)]

\* ------------------------------------------------------- session statistics
Statuses == {"SUCCESS", "FAIL", "ERROR", "SKIP"}

Statistics == [total_requests |-> 0, failed_requests |-> 0, max_response_time |-> 0]

Max(a, b) == IF a >= b THEN a ELSE b

NoResponse ==
    [status_code |-> 0, decodes |-> FALSE, value |-> JNull, elapsed |-> 0, response_time |-> 0]

\* What one execution of a scenario did: the session that ran it, the requests
\* it sent and the response it got, the statuses it passed to log_scenario,
\* the marks it put on the response with the reason of the last failure
\* mark, its appends to registered_users, its updates of max_response_time
\* and the exception that left it.
NewExecution(s, scenario, requests, response) ==
    [session |-> s, scenario |-> scenario, requests |-> requests, response |-> response,
     logs |-> <<>>, marks |-> <<>>, reason |-> <<>>, appended |-> 0,
     latency_updates |-> 0, escaped |-> NoExc]

\* The session as a scenario sees it: u.raised is the exception in flight.
Frame(s, scenario, requests, response) ==
    [registered_users |-> registered_users[s], stats |-> stats[s], logged |-> logged[s],
     obs |-> NewExecution(s, scenario, requests, response), raised |-> NoExc]

Raise(u, exc) == [u EXCEPT !.raised = exc]

\* log_scenario with the total counted in an else branch of the status test.
log_scenario_total_in_else(u, status) ==
    [u EXCEPT !.logged[status] = @ + 1,
              !.obs.logs = Append(@, status),
              !.stats.total_requests = IF status \in {"FAIL", "ERROR"} THEN @ ELSE @ + 1,
              !.stats.failed_requests = IF status \in {"FAIL", "ERROR"} THEN @ + 1 ELSE @]

\* log_scenario that leaves a skipped scenario out of the total.
log_scenario_skip_uncounted(u, status) ==
    [u EXCEPT !.logged[status] = @ + 1,
              !.obs.logs = Append(@, status),
              !.stats.total_requests = IF status = "SKIP" THEN @ ELSE @ + 1,
              !.stats.failed_requests = IF status \in {"FAIL", "ERROR"} THEN @ + 1 ELSE @]

\* log_scenario that counts every status but SUCCESS as a failure.
log_scenario_skip_failed(u, status) ==
    [u EXCEPT !.logged[status] = @ + 1,
              !.obs.logs = Append(@, status),
              !.stats.total_requests = @ + 1,
              !.stats.failed_requests = IF status # "SUCCESS" THEN @ + 1 ELSE @]

\* log_scenario: one line in the log, then the statistics.
log_scenario(u, status) ==
    [u EXCEPT !.logged[status] = @ + 1,
              !.obs.logs = Append(@, status),
              !.stats.total_requests = @ + 1,
              !.stats.failed_requests = IF status \in {"FAIL", "ERROR"} THEN @ + 1 ELSE @]

\* response.success() and response.failure(reason) of the context manager.
success(u) == [u EXCEPT !.obs.marks = Append(@, "success")]
failure(u, reason) == [u EXCEPT !.obs.marks = Append(@, "failure"), !.obs.reason = reason]

\* except Exception as e: log ERROR, mark the response failed.
ExceptHandler(u) ==
    IF u.raised # NoExc /\ Catches(u.raised)
    THEN failure(log_scenario(Raise(u, NoExc), "ERROR"), <<"Invalid response: ", u.raised>>)
    ELSE u

\* The try block of scenario_register_new_user with the append after the
\* if statement instead of inside its first branch.
RegisterTryAppendAlways(u, response, user_data) ==
    LET msg == JsonMsg(response)
    IN  IF msg.exc # NoExc THEN Raise(u, msg.exc)
        ELSE IF msg.val = "User Registered"
        THEN [success(log_scenario(u, "SUCCESS"))
                 EXCEPT !.registered_users = Append(@, user_data),
                        !.obs.appended = @ + 1]
        ELSE [failure(log_scenario(u, "FAIL"), <<msg.val>>)
                 EXCEPT !.registered_users = Append(@, user_data),
                        !.obs.appended = @ + 1]

\* The try block of scenario_register_new_user.
RegisterTry(u, response, user_data) ==
    LET msg == JsonMsg(response)
    IN  IF msg.exc # NoExc THEN Raise(u, msg.exc)
        ELSE IF msg.val = "User Registered"
        THEN [success(log_scenario(u, "SUCCESS"))
                 EXCEPT !.registered_users = Append(@, user_data),
                        !.obs.appended = @ + 1]
        ELSE LET detail == JsonMsg(response)
             IN  IF detail.exc # NoExc THEN Raise(u, detail.exc)
                 ELSE LET u1 == log_scenario(u, "FAIL")
                          reason == JsonMsg(response)
                      IN  IF reason.exc # NoExc THEN Raise(u1, reason.exc)
                          ELSE failure(u1, <<reason.val>>)

\* Track response time: runs unless an exception left the try statement.
TrackResponseTime(u, response) ==
    IF u.raised # NoExc THEN u
    ELSE [u EXCEPT !.stats.max_response_time = Max(@, response.elapsed),
                   !.obs.latency_updates = @ + 1]

\* The try block of the login scenarios with a FAIL line that does not read
\* the body: the body is first read, and may raise, after FAIL is logged.
LoginTryLogFirst(u, response) ==
    LET has == JsonHasToken(response)
    IN  IF has.exc # NoExc THEN Raise(u, has.exc)
        ELSE IF has.val
        THEN success(log_scenario(u, "SUCCESS"))
        ELSE LET u1 == log_scenario(u, "FAIL")
                 reason == JsonGetMsg(response, "Login failed")
             IN  IF reason.exc # NoExc THEN Raise(u1, reason.exc)
                 ELSE failure(u1, <<reason.val>>)

\* The try block of the login scenarios with the FAIL branch dropping the
\* oldest registered user.
LoginTryForgetOnFail(u, response) ==
    LET has == JsonHasToken(response)
    IN  IF has.exc # NoExc THEN Raise(u, has.exc)
        ELSE IF has.val
        THEN success(log_scenario(u, "SUCCESS"))
        ELSE LET detail == JsonGetMsg(response, "Unknown error")
             IN  IF detail.exc # NoExc THEN Raise(u, detail.exc)
                 ELSE LET u0 == log_scenario(u, "FAIL")
                          u1 == [u0 EXCEPT !.registered_users = Tail(@)]
                          reason == JsonGetMsg(response, "Login failed")
                      IN  IF reason.exc # NoExc THEN Raise(u1, reason.exc)
                          ELSE failure(u1, <<reason.val>>)

\* The try block of the two login scenarios.
LoginTry(u, response) ==
    LET has == JsonHasToken(response)
    IN  IF has.exc # NoExc THEN Raise(u, has.exc)
        ELSE IF has.val
        THEN success(log_scenario(u, "SUCCESS"))
        ELSE LET detail == JsonGetMsg(response, "Unknown error")
             IN  IF detail.exc # NoExc THEN Raise(u, detail.exc)
                 ELSE LET u1 == log_scenario(u, "FAIL")
                          reason == JsonGetMsg(response, "Login failed")
                      IN  IF reason.exc # NoExc THEN Raise(u1, reason.exc)
                          ELSE failure(u1, <<reason.val>>)

\* Leaving the scenario: an exception still in flight escapes to the scheduler.
Leave(u) ==
    [u EXCEPT !.obs.escaped = u.raised, !.raised = NoExc]

\* ------------------------------------------------------ requests, responses
NextTask(t) == (t % 3) + 1

NoRequest == [sent |-> FALSE, name |-> "", path |-> "", data |-> <<>>]

Post(path, data, name) == [sent |-> TRUE, name |-> name, path |-> path, data |-> data]

Latencies == {100, 2500}

JsonBodies ==
    { JDict({"msg"}, "User Registered"),
      JDict({"msg"}, "Email already exists"),
      JDict({"token"}, ""),
      JDict({}, ""),
      JList(<<"token">>),
      JList(<<>>),
      JStr(<<"n", "o", " ", "t", "o", "k", "e", "n">>),
      JStr(<<"o", "k">>),
      JNull }

\* What the client hands to the scenario: a decoded body, a body that is not
\* JSON, or the empty response of a connection-level failure (status_code 0,
\* elapsed 0).  elapsed is the time the HTTP library measured; response_time
\* is the scheduler's own measurement, which feeds its aggregate.
ResponseTimes == {150}

Response(status_code, decodes, value, elapsed) ==
    [status_code |-> status_code, decodes |-> decodes, value |-> value,
     elapsed |-> elapsed, response_time |-> CHOOSE t \in ResponseTimes : TRUE]

\* Every body arrives fast; a registration and a non-JSON body also slowly.
Responses ==
    { Response(200, TRUE, v, 100) : v \in JsonBodies }
    \cup { Response(200, TRUE, JDict({"msg"}, "User Registered"), l) : l \in Latencies }
    \cup { Response(200, FALSE, JNull, l) : l \in Latencies }
    \cup { Response(0, FALSE, JNull, 0) }

\* WithExit without catch_response: the marks are ignored and the status
\* code alone decides.
WithExitByStatus(e, u, response) ==
    [e EXCEPT !.num_requests = @ + 1,
              !.num_failures = IF response.status_code = 0 \/ response.status_code >= 400
                               THEN @ + 1 ELSE @,
              !.total_response_time = @ + response.response_time]

\* Leaving the with block: the context manager reports the request to the
\* scheduler's aggregate, with the last mark the scenario put on it; without
\* a mark an exception passes unreported and otherwise the status decides.
WithExit(e, u, response) ==
    LET n == Len(u.obs.marks)
        reported == n > 0 \/ u.raised = NoExc
        failed == IF n > 0 THEN u.obs.marks[n] = "failure"
                  ELSE response.status_code = 0 \/ response.status_code >= 400
    IN  IF reported
        THEN [e EXCEPT !.num_requests = @ + 1,
                       !.num_failures = IF failed THEN @ + 1 ELSE @,
                       !.total_response_time = @ + response.response_time]
        ELSE e

\* ------------------------------------------------------------------ actions
CanStart(s) == running /\ ~inflight[s].sent /\ started < MaxSteps

\* Store with registered_users a class attribute: one list for all sessions.
StoreSharedList(s, u) ==
    /\ registered_users' = [t \in Sessions |-> u.registered_users]
    /\ stats' = [stats EXCEPT ![s] = u.stats]
    /\ logged' = [logged EXCEPT ![s] = u.logged]
    /\ last' = u.obs

Store(s, u) ==
    /\ registered_users' = [registered_users EXCEPT ![s] = u.registered_users]
    /\ stats' = [stats EXCEPT ![s] = u.stats]
    /\ logged' = [logged EXCEPT ![s] = u.logged]
    /\ last' = u.obs

\* scenario_register_new_user up to the POST.
RegisterRequest(s) ==
    /\ CanStart(s) /\ task[s] = 1
    /\ \E draw \in TokenDraws, digits \in DigitDraws :
          LET user_data == generate_random_user(draw, digits)
          IN  inflight' = [inflight EXCEPT ![s] =
                  Post("/client_registeration", user_data, "1. Register New User")]
    /\ started' = started + 1
    /\ UNCHANGED <<registered_users, stats, task, logged, last, env, running, handlerVars>>

\* scenario_register_new_user from the response on.
RegisterResponse(s) ==
    /\ running /\ inflight[s].sent /\ task[s] = 1
    /\ \E response \in Responses :
          LET u0 == Frame(s, "Registration", 1, response)
              u1 == ExceptHandler(RegisterTry(u0, response, inflight[s].data))
              u2 == TrackResponseTime(u1, response)
          IN  /\ Store(s, Leave(u2))
              /\ env' = WithExit(env, u2, response)
    /\ inflight' = [inflight EXCEPT ![s] = NoRequest]
    /\ task' = [task EXCEPT ![s] = NextTask(@)]
    /\ UNCHANGED <<started, running, handlerVars>>

\* LoginPayload with the identifier of the other login put in as well.
LoginPayloadBothNames(scenario, user) ==
    [userName |-> user.userName, email |-> user.email, password |-> user.password]

LoginPayload(scenario, user) ==
    IF scenario = "Login with Email"
    THEN [userName |-> <<>>, email |-> user.email, password |-> user.password]
    ELSE [userName |-> user.userName, email |-> <<>>, password |-> user.password]

\* A login scenario up to the POST, or all of it when no user is registered.
LoginStart(s, scenario, name) ==
    /\ CanStart(s)
    /\ started' = started + 1
    /\ IF registered_users[s] = <<>>
       THEN /\ Store(s, Leave(log_scenario(Frame(s, scenario, 0, NoResponse), "SKIP")))
            /\ task' = [task EXCEPT ![s] = NextTask(@)]
            /\ UNCHANGED inflight
       ELSE /\ \E i \in 1..Len(registered_users[s]) :
                  LET user == registered_users[s][i]
                  IN  inflight' = [inflight EXCEPT ![s] =
                          Post("/client_login", LoginPayload(scenario, user), name)]
            /\ UNCHANGED <<registered_users, stats, logged, task, last>>
    /\ UNCHANGED <<env, running, handlerVars>>

\* A login scenario from the response on.
LoginResponse(s, scenario) ==
    /\ running /\ inflight[s].sent
    /\ \E response \in Responses :
          LET u0 == Frame(s, scenario, 1, response)
              u1 == ExceptHandler(LoginTry(u0, response))
          IN  /\ Store(s, Leave(u1))
              /\ env' = WithExit(env, u1, response)
    /\ inflight' = [inflight EXCEPT ![s] = NoRequest]
    /\ task' = [task EXCEPT ![s] = NextTask(@)]
    /\ UNCHANGED <<started, running, handlerVars>>

LoginEmailStart(s) == task[s] = 2 /\ LoginStart(s, "Login with Email", "2. Login with Email")
LoginEmailResponse(s) == task[s] = 2 /\ LoginResponse(s, "Login with Email")
LoginUsernameStart(s) == task[s] = 3 /\ LoginStart(s, "Login with Username", "3. Login with Username")
LoginUsernameResponse(s) == task[s] = 3 /\ LoginResponse(s, "Login with Username")

\* The runner stops and fires the quitting event; a request still in flight
\* is never completed.
Quit ==
    /\ running /\ hpc = "idle"
    /\ running' = FALSE
    /\ hpc' = "start"
    /\ UNCHANGED <<sessionVars, env, exit_code, report, files>>

\* -------------------------------------------------------------- on_test_end
\* a / b on Python numbers: the quotient as <<a, b>>, or ZeroDivisionError.
Divide(a, b) ==
    IF b = 0 THEN [exc |-> "ZeroDivisionError", val |-> <<0, 1>>]
    ELSE [exc |-> NoExc, val |-> <<a, b>>]

Times(q, k) == <<q[1] * k, q[2]>>

\* q > k for a quotient with a positive denominator.
GreaterThan(q, k) == q[1] > k * q[2]

\* The aggregate's avg_response_time property.
avg_response_time(e) ==
    IF e.num_requests = 0 THEN <<0, 1>> ELSE <<e.total_response_time, e.num_requests>>

\* environment.runner.stats.start_time belongs to the scheduler library, not
\* to this file.  locust's RequestStats.start_time is the float of
\* time.time(); the handler subtracts it from a datetime.
StartTimes == {"float", "datetime"}

\* datetime.now() - start_time
SinceStart(start_time) ==
    IF start_time = "datetime" THEN [exc |-> NoExc, val |-> "timedelta"]
    ELSE [exc |-> "TypeError", val |-> ""]

\* The guard written "num_requests is None": a count is never None.
NoRequestsIsNone(e) == FALSE

\* not environment.stats.total.num_requests
NoRequests(e) == e.num_requests = 0

NoReport ==
    [failure_percent |-> <<0, 1>>, average_response_time |-> <<0, 1>>,
     test_duration |-> "", divisions |-> 0, exc |-> NoExc]

\* json.dump(report, f, indent=2): the keys in the order the dict was built.
JsonDump(e, r) ==
    << <<"total_requests", e.num_requests>>,
       <<"failed_requests", e.num_failures>>,
       <<"failure_percentage", r.failure_percent>>,
       <<"average_response_time", r.average_response_time>>,
       <<"test_duration", r.test_duration>> >>

\* environment.stats.total belongs to the scheduler library as well.
\* generate_junit_report reads total_requests and failed_requests from it,
\* the attribute names of this file's Statistics: locust's StatsEntry holds
\* its counts as num_requests and num_failures and has no attribute of either
\* name; an object that has them is taken to hold the same counts there.
StatsClasses == {"StatsEntry", "Statistics"}

\* stats.total_requests and stats.failed_requests on the object handed over.
StatsAttributes(e, class) ==
    IF class = "Statistics"
    THEN [exc |-> NoExc,
          val |-> [total_requests |-> e.num_requests, failed_requests |-> e.num_failures]]
    ELSE [exc |-> "AttributeError", val |-> [total_requests |-> 0, failed_requests |-> 0]]

\* generate_junit_report with the failure element only when a request failed.
generate_junit_report_conditional(total) ==
    [name |-> "load_test_results.xml",
     content |->
        [testsuites |-> <<
            [name |-> "Load Test Results",
             tests |-> total.total_requests,
             failures |-> total.failed_requests,
             testcases |-> <<
                [name |-> "Performance Requirements", classname |-> "LoadTest",
                 failure |-> IF total.failed_requests > 0
                             THEN <<"Failed performance requirements">> ELSE <<>>] >>] >>]]

\* The document generate_junit_report formats from the values it read.
generate_junit_report(total) ==
    [name |-> "load_test_results.xml",
     content |->
        [testsuites |-> <<
            [name |-> "Load Test Results",
             tests |-> total.total_requests,
             failures |-> total.failed_requests,
             testcases |-> <<
                [name |-> "Performance Requirements", classname |-> "LoadTest",
                 failure |-> <<"Failed performance requirements">>] >>] >>]]

\* failed = failure_percent > FAILURE_THRESHOLD or avg_response_time >
\* MAX_RESPONSE_TIME or num_requests < MIN_REQUESTS
Failed(e, r) ==
    \/ GreaterThan(r.failure_percent, FAILURE_THRESHOLD)
    \/ GreaterThan(r.average_response_time, MAX_RESPONSE_TIME)
    \/ e.num_requests < MIN_REQUESTS

\* No requests were made: exit code 1 and return.
OnTestEndNoRequests ==
    /\ hpc = "start" /\ NoRequests(env)
    /\ exit_code' = Append(exit_code, 1)
    /\ hpc' = "done"
    /\ UNCHANGED <<sessionVars, env, running, report, files>>

\* Calculate test results and build the report dict.
OnTestEndReport ==
    /\ hpc = "start" /\ ~NoRequests(env)
    /\ LET q == Divide(env.num_failures, env.num_requests)
       IN  IF q.exc # NoExc
           THEN /\ report' = [report EXCEPT !.divisions = @ + 1, !.exc = q.exc]
                /\ hpc' = "raised"
           ELSE \E start_time \in StartTimes :
                   LET d == SinceStart(start_time)
                       r == [report EXCEPT !.divisions = @ + 1,
                                           !.failure_percent = Times(q.val, 100),
                                           !.average_response_time = avg_response_time(env)]
                   IN  IF d.exc # NoExc
                       THEN /\ report' = [r EXCEPT !.exc = d.exc]
                            /\ hpc' = "raised"
                       ELSE /\ report' = [r EXCEPT !.test_duration = d.val]
                            /\ hpc' = "json"
    /\ UNCHANGED <<sessionVars, env, running, exit_code, files>>

\* Save JSON report.
OnTestEndSaveJson ==
    /\ hpc = "json"
    /\ files' = Append(files, [name |-> "load_test_report.json",
                               content |-> JsonDump(env, report)])
    /\ hpc' = "junit"
    /\ UNCHANGED <<sessionVars, env, running, exit_code, report>>

\* generate_junit_report(environment.stats.total)
\* The template is formatted before the file is opened: an attribute the
\* object lacks ends the handler with nothing written.
OnTestEndJunit ==
    /\ hpc = "junit"
    /\ \E class \in StatsClasses :
          LET a == StatsAttributes(env, class)
          IN  IF a.exc # NoExc
              THEN /\ report' = [report EXCEPT !.exc = a.exc]
                   /\ hpc' = "raised"
                   /\ UNCHANGED files
              ELSE /\ files' = Append(files, generate_junit_report(a.val))
                   /\ hpc' = "verdict"
                   /\ UNCHANGED report
    /\ UNCHANGED <<sessionVars, env, running, exit_code>>

\* Determine test success/failure.
OnTestEndVerdict ==
    /\ hpc = "verdict"
    /\ exit_code' = Append(exit_code, IF Failed(env, report) THEN 1 ELSE 0)
    /\ hpc' = "done"
    /\ UNCHANGED <<sessionVars, env, running, report, files>>

on_test_end ==
    \/ OnTestEndNoRequests
    \/ OnTestEndReport
    \/ OnTestEndSaveJson
    \/ OnTestEndJunit
    \/ OnTestEndVerdict

\* ------------------------------------------------------------ specification
NoExecution == NewExecution(0, "", 0, NoResponse)

InitSessions ==
    /\ registered_users = [s \in Sessions |-> <<>>]
    /\ stats = [s \in Sessions |-> Statistics]
    /\ task = [s \in Sessions |-> 1]
    /\ inflight = [s \in Sessions |-> NoRequest]
    /\ logged = [s \in Sessions |-> [st \in Statuses |-> 0]]
    /\ last = NoExecution
    /\ started = 0

InitHandler ==
    /\ exit_code = <<>>
    /\ report = NoReport
    /\ files = <<>>

Init ==
    /\ InitSessions
    /\ InitHandler
    /\ env = [num_requests |-> 0, num_failures |-> 0, total_response_time |-> 0]
    /\ running = TRUE
    /\ hpc = "idle"

\* The run of the sessions, up to the firing of the quitting event.
Next ==
    \/ \E s \in Sessions : RegisterRequest(s)
    \/ \E s \in Sessions : RegisterResponse(s)
    \/ \E s \in Sessions : LoginEmailStart(s)
    \/ \E s \in Sessions : LoginEmailResponse(s)
    \/ \E s \in Sessions : LoginUsernameStart(s)
    \/ \E s \in Sessions : LoginUsernameResponse(s)
    \/ Quit

Spec == Init /\ [][Next]_vars

\* The quitting listener alone, on the aggregates a finished run can hand it:
\* any request count up to MaxAggRequests, any failure count within it, and
\* total response times around the latency threshold.  The sessions are
\* stopped by then and the listener reads none of their state.
TotalResponseTimes(n) ==
    IF n = 0 THEN {0} ELSE {300 * n, 500 * n, 2000 * n, 2000 * n + 1, 2500 * n}

Aggregates ==
    UNION { { [num_requests |-> n, num_failures |-> f, total_response_time |-> rt]
                : f \in 0..n, rt \in TotalResponseTimes(n) }
            : n \in 0..MaxAggRequests }

InitReport ==
    /\ InitSessions
    /\ InitHandler
    /\ env \in Aggregates
    /\ running = FALSE
    /\ hpc = "start"

NextReport == on_test_end

SpecReport == InitReport /\ [][NextReport]_vars

\* One call of generate_random_user on any two streams of the random source;
\* the user becomes the payload of the session's registration request.
GenerateUser(s) ==
    /\ CanStart(s) /\ task[s] = 1
    /\ \E letters \in Streams, numbers \in Streams :
          LET user_data == generate_random_user(choices(string_ascii_lowercase, letters),
                                                choices(string_digits, numbers))
          IN  inflight' = [inflight EXCEPT ![s] =
                  Post("/client_registeration", user_data, "1. Register New User")]
    /\ started' = started + 1
    /\ UNCHANGED <<registered_users, stats, task, logged, last, env, running, handlerVars>>

NextUser == GenerateUser(1)

SpecUser == Init /\ [][NextUser]_vars

\* ------------------------------------------------------------------ claims
Finished == last.scenario # ""

IsLogin(scenario) == scenario \in {"Login with Email", "Login with Username"}

\* C1: in every reachable state each session's failed_requests is at most its
\* total_requests, and both are non-negative.
C1_FailedAtMostTotal ==
    \A s \in Sessions :
        /\ 0 <= stats[s].failed_requests
        /\ stats[s].failed_requests <= stats[s].total_requests

\* A session that logged a failure and a non-failure.
C1_Witness ==
    \E s \in Sessions :
        /\ stats[s].failed_requests >= 1
        /\ stats[s].total_requests > stats[s].failed_requests

\* C2 as stated: every execution logs exactly once, and its response carries
\* exactly one mark, success for SUCCESS and failure for every other status.
C2_Original ==
    Finished =>
        /\ Len(last.logs) = 1
        /\ last.logs[1] = "SUCCESS" => last.marks = <<"success">>
        /\ last.logs[1] # "SUCCESS" => last.marks = <<"failure">>

\* C2 amended: every execution logs exactly once; its response carries
\* exactly one mark, success for SUCCESS and failure for FAIL and ERROR; an
\* execution logged SKIP sent no request and marked nothing.
C2_LoggedOnceMarkedConsistently ==
    Finished =>
        /\ Len(last.logs) = 1
        /\ last.logs[1] = "SUCCESS" => last.marks = <<"success">> /\ last.requests = 1
        /\ last.logs[1] \in {"FAIL", "ERROR"} => last.marks = <<"failure">> /\ last.requests = 1
        /\ last.logs[1] = "SKIP" => last.marks = <<>> /\ last.requests = 0

\* A login that failed after a body without a msg, marked with the default.
C2_Witness ==
    /\ IsLogin(last.scenario)
    /\ last.logs = <<"FAIL">>
    /\ last.marks = <<"failure">>
    /\ last.reason = <<"Login failed">>

\* The verdict the thresholds give for an aggregate: strict comparisons of
\* failed/total*100 with 1, of the average response time with 2000 ms and of
\* the request count with 10.
ThresholdViolated(e) ==
    \/ e.num_failures * 100 > 1 * e.num_requests
    \/ e.total_response_time > 2000 * e.num_requests
    \/ e.num_requests < 10

HandlerEnded == hpc \in {"done", "raised"}

BothReportsWritten ==
    /\ Len(files) = 2
    /\ files[1].name = "load_test_report.json"
    /\ files[2].name = "load_test_results.xml"

\* C3 as stated: for every aggregate with requests, on_test_end ends with the
\* exit code set to 1 if a threshold is violated and to 0 otherwise.
C3_ExitCodeIsVerdict ==
    (HandlerEnded /\ env.num_requests > 0) =>
        exit_code = << IF ThresholdViolated(env) THEN 1 ELSE 0 >>

\* C4: with zero requests on_test_end sets the exit code to 1 and returns: no
\* division is evaluated, no error is raised and no report file is written.
C4_NoRequestsExitsOne ==
    env.num_requests = 0 =>
        /\ report.divisions = 0
        /\ report.exc = NoExc
        /\ files = <<>>
        /\ hpc # "start" => hpc = "done" /\ exit_code = <<1>>

\* The handler has returned on an aggregate without requests.
C4_Witness == env.num_requests = 0 /\ hpc = "done" /\ exit_code = <<1>>

\* C5 as stated: in every run with requests that violates a threshold,
\* on_test_end writes the JSON report, then the JUnit report from the same
\* aggregate, and then ends with the exit code 1.
C5_ReportsThenExitOne ==
    (HandlerEnded /\ env.num_requests > 0 /\ ThresholdViolated(env)) =>
        /\ hpc = "done"
        /\ BothReportsWritten
        /\ files[2].content.testsuites[1].tests = env.num_requests
        /\ files[2].content.testsuites[1].failures = env.num_failures
        /\ exit_code = <<1>>

\* C6: no execution of a scenario lets an exception escape, whatever the
\* response; a registration always reaches its update of max_response_time.
C6_NothingEscapes ==
    Finished =>
        /\ last.escaped = NoExc
        /\ last.scenario = "Registration" => last.latency_updates = 1

\* A login whose body was JSON but no object: the FAIL branch raised
\* AttributeError and the handler classified it.
C6_Witness ==
    /\ IsLogin(last.scenario)
    /\ last.response.decodes /\ last.response.value.type = "list"
    /\ last.logs = <<"ERROR">>
    /\ last.reason = <<"Invalid response: ", "AttributeError">>
    /\ last.escaped = NoExc

\* The session s takes a step.
Acted(s) ==
    \/ logged'[s] # logged[s]
    \/ inflight'[s].sent # inflight[s].sent
    \/ task'[s] # task[s]

\* C7: a login scenario run while registered_users is empty is recorded as
\* SKIP, sends no request, marks no response and leaves registered_users,
\* failed_requests, max_response_time and the aggregate unchanged.
C7_Step ==
    \A s \in Sessions :
        (Acted(s) /\ task[s] \in {2, 3} /\ registered_users[s] = <<>>) =>
            /\ last'.session = s /\ IsLogin(last'.scenario)
            /\ last'.logs = <<"SKIP">>
            /\ last'.requests = 0 /\ ~inflight'[s].sent
            /\ last'.marks = <<>>
            /\ registered_users'[s] = registered_users[s]
            /\ stats'[s].failed_requests = stats[s].failed_requests
            /\ stats'[s].max_response_time = stats[s].max_response_time
            /\ env' = env

\* C7: every step of the run is such a step: a login with no registered user
\* is a SKIP that sends nothing, marks nothing and changes no other counter.
C7_EmptyLoginSkips == [][C7_Step]_vars

\* Both logins of a session were skipped.
C7_Witness ==
    /\ last.scenario = "Login with Username"
    /\ last.logs = <<"SKIP">>
    /\ registered_users[last.session] = <<>>

\* C8: every call of log_scenario adds 1 to total_requests whatever the
\* status, SKIP included, and 1 to failed_requests exactly for FAIL and ERROR.
C8_CountsFollowLog ==
    \A s \in Sessions :
        /\ stats[s].total_requests =
              logged[s]["SUCCESS"] + logged[s]["FAIL"] + logged[s]["ERROR"] + logged[s]["SKIP"]
        /\ stats[s].failed_requests = logged[s]["FAIL"] + logged[s]["ERROR"]

\* A session that skipped a login after a registration that did not succeed.
C8_Witness ==
    \E s \in Sessions :
        /\ logged[s]["SKIP"] >= 1
        /\ logged[s]["FAIL"] + logged[s]["ERROR"] >= 1
        /\ stats[s].total_requests > stats[s].failed_requests

\* The body is an object whose msg is "User Registered".
SaysRegistered(r) ==
    /\ r.decodes /\ r.value.type = "dict" /\ "msg" \in r.value.keys
    /\ r.value.fields["msg"] = "User Registered"

\* The body is an object with a msg.
HasMsg(r) == r.decodes /\ r.value.type = "dict" /\ "msg" \in r.value.keys

\* The body is an object with a token field.
HasTokenField(r) == r.decodes /\ r.value.type = "dict" /\ "token" \in r.value.keys

\* The body is an object.
IsObject(r) == r.decodes /\ r.value.type = "dict"

\* C9: a registration is SUCCESS exactly when the body's msg is "User
\* Registered", and exactly then the generated user is appended once to
\* registered_users; any other msg is FAIL and a malformed response is
\* ERROR, both leaving registered_users unchanged.
C9_Step ==
    \A s \in Sessions :
        (Acted(s) /\ task[s] = 1 /\ inflight[s].sent) =>
            LET r == last'.response
            IN  /\ last'.session = s /\ last'.scenario = "Registration"
                /\ last'.logs = << IF SaysRegistered(r) THEN "SUCCESS"
                                   ELSE IF HasMsg(r) THEN "FAIL" ELSE "ERROR" >>
                /\ registered_users'[s] =
                      IF SaysRegistered(r)
                      THEN Append(registered_users[s], inflight[s].data)
                      ELSE registered_users[s]

\* C9: every step of the run classifies a registration response that way and
\* appends the posted user exactly on SUCCESS.
C9_RegisterClassified == [][C9_Step]_vars

\* A registration succeeded and its user is the one entry of the list.
C9_Witness ==
    /\ last.scenario = "Registration"
    /\ last.logs = <<"SUCCESS">>
    /\ Len(registered_users[last.session]) = 1
    /\ registered_users[last.session][1].email[1] = "test_"

\* C10 as stated: a login with a registered user is SUCCESS exactly when the
\* body has a token field; a well-formed body without one is FAIL with the
\* body's msg, or "Login failed", as the reason; a malformed response is
\* ERROR; registered_users is never appended to.
C10_LoginClassified ==
    (Finished /\ IsLogin(last.scenario) /\ last.requests = 1) =>
        LET r == last.response
        IN  /\ last.logs = <<"SUCCESS">> <=> HasTokenField(r)
            /\ (IsObject(r) /\ ~HasTokenField(r)) =>
                  /\ last.logs = <<"FAIL">>
                  /\ last.reason = << IF HasMsg(r) THEN r.value.fields["msg"]
                                      ELSE "Login failed" >>
            /\ ~IsObject(r) => last.logs = <<"ERROR">>
            /\ last.appended = 0

\* The value json.dump wrote under a key of the report.
JsonValue(content, key) ==
    LET i == CHOOSE j \in 1..Len(content) : content[j][1] = key
    IN  content[i][2]

JsonReportWritten == Len(files) >= 1 /\ files[1].name = "load_test_report.json"

JunitReportWritten == Len(files) >= 2 /\ files[2].name = "load_test_results.xml"

IsFailed(status) == status \in {"FAIL", "ERROR"}

\* C12: a step of one session changes no other session's registered_users,
\* total_requests, failed_requests or max_response_time, and it moves the
\* session's own counters by the statuses its own execution logged.
C12_Step ==
    /\ \A s, t \in Sessions : (Acted(s) /\ Acted(t)) => s = t
    /\ \A t \in Sessions :
          ~Acted(t) => /\ registered_users'[t] = registered_users[t]
                       /\ stats'[t] = stats[t]
    /\ \A s \in Sessions :
          (Acted(s) /\ logged'[s] # logged[s]) =>
              /\ last'.session = s
              /\ stats'[s].total_requests = stats[s].total_requests + Len(last'.logs)
              /\ stats'[s].failed_requests =
                    stats[s].failed_requests + Len(SelectSeq(last'.logs, IsFailed))
          
\* C12: every step of every interleaving is such a step.
C12_SessionsPrivate == [][C12_Step]_vars

\* Two sessions have run side by side: one holds a registered user, the
\* other holds none and has counted a failed request.
C12_Witness ==
    \E s, t \in Sessions :
        /\ s # t
        /\ registered_users[s] # <<>> /\ stats[s].failed_requests = 0
        /\ registered_users[t] = <<>> /\ stats[t].failed_requests >= 1
        /\ stats[t].total_requests > stats[s].total_requests

\* The characters of a string.
Range(str) == { str[i] : i \in DOMAIN str }

RegistrationInFlight(s) ==
    inflight[s].sent /\ inflight[s].path = "/client_registeration"

\* C13: every user generate_random_user returns embeds one and the same
\* token of 8 lowercase letters in fullName, userName, email and password,
\* and its phone is 10 decimal digits.
C13_OneTokenInEveryField ==
    \A s \in Sessions :
        RegistrationInFlight(s) =>
            LET user == inflight[s].data
                t == user.fullName[2]
            IN  /\ Len(t) = 8 /\ Range(t) \subseteq Range(string_ascii_lowercase)
                /\ user.fullName = <<"Test User ", t>>
                /\ user.userName = <<"testuser_", t>>
                /\ user.email = <<"test_", t, "@example.com">>
                /\ user.password = <<"password_", t>>
                /\ Len(user.phone) = 10 /\ Range(user.phone) \subseteq Range(string_digits)

\* A generated user whose token and phone each hold several characters.
C13_Witness ==
    \E s \in Sessions :
        /\ RegistrationInFlight(s)
        /\ Cardinality(Range(inflight[s].data.userName[2])) >= 3
        /\ Cardinality(Range(inflight[s].data.phone)) >= 3

\* The session s completes an HTTP request in this step.
Completes(s) == inflight[s].sent /\ ~inflight'[s].sent

\* C14 as stated: a session's max_response_time is the maximum latency over
\* the requests it completed, 0 before the first: a request of any of the
\* three scenarios raises it to the latency of its response when that is
\* larger; it never decreases and the counters are never reset.
C14_Step ==
    \A s \in Sessions :
        /\ stats'[s].max_response_time >= stats[s].max_response_time
        /\ stats'[s].total_requests >= stats[s].total_requests
        /\ stats'[s].failed_requests >= stats[s].failed_requests
        /\ Completes(s) =>
              /\ last'.session = s
              /\ stats'[s].max_response_time =
                    Max(stats[s].max_response_time, last'.response.elapsed)
        /\ ~Completes(s) => stats'[s].max_response_time = stats[s].max_response_time

\* C14 as stated, for every step of the run.
C14_MaxOverAllRequests == [][C14_Step]_vars

LoginInFlight(s) == inflight[s].sent /\ inflight[s].path = "/client_login"

\* The credentials of the request are those of the one user: an email login
\* sends an empty userName, a username login an empty email.
CarriesCredentialsOf(request, scenario_task, user) ==
    /\ request.data.password = user.password
    /\ scenario_task = 2 =>
          request.data.userName = <<>> /\ request.data.email = user.email
    /\ scenario_task = 3 =>
          request.data.userName = user.userName /\ request.data.email = <<>>

C15_LoginOfRegisteredUser ==
    \A s \in Sessions :
        LoginInFlight(s) =>
            /\ task[s] \in {2, 3}
            /\ \E i \in 1..Len(registered_users[s]) :
                  CarriesCredentialsOf(inflight[s], task[s], registered_users[s][i])

\* A user enters registered_users only as the payload of a registration request of
\* this session whose execution logged SUCCESS.
C15_Step ==
    \A s \in Sessions :
        registered_users'[s] # registered_users[s] =>
            /\ Completes(s) /\ inflight[s].path = "/client_registeration"
            /\ last'.session = s /\ last'.scenario = "Registration"
            /\ last'.logs = <<"SUCCESS">>
            /\ registered_users'[s] = Append(registered_users[s], inflight[s].data)

\* C15: every login request carries the credentials of one single user that
\* the same session registered successfully at an earlier step, in the shape
\* of its scenario; no login is sent for a user whose registration failed,
\* errored or has not completed.
C15_LoginsUseOwnRegistrations == [](C15_LoginOfRegisteredUser) /\ [][C15_Step]_vars

\* A username login in flight in a session while another session, whose
\* registration did not succeed, holds no user.
C15_Witness ==
    \E s, t \in Sessions :
        /\ LoginInFlight(s) /\ task[s] = 3
        /\ inflight[s].data.userName = registered_users[s][1].userName
        /\ registered_users[t] = <<>> /\ stats[t].failed_requests >= 1

\* C16: whenever the JUnit report is written it holds exactly one test suite,
\* named "Load Test Results", with exactly one test case, and that test case
\* holds a failure element, also in a run that passes with exit code 0.
C16_JunitAlwaysHoldsFailure ==
    \A i \in 1..Len(files) :
        files[i].name = "load_test_results.xml" =>
            LET suites == files[i].content.testsuites
            IN  /\ Len(suites) = 1
                /\ suites[1].name = "Load Test Results"
                /\ Len(suites[1].testcases) = 1
                /\ suites[1].testcases[1].failure # <<>>

\* A run that meets every threshold: exit code 0, no failed request, and the
\* JUnit report written with its failure element.
C16_Witness ==
    /\ hpc = "done" /\ exit_code = <<0>>
    /\ env.num_failures = 0 /\ ~ThresholdViolated(env)
    /\ JunitReportWritten
    /\ files[2].content.testsuites[1].failures = 0
    /\ files[2].content.testsuites[1].testcases[1].failure =
          <<"Failed performance requirements">>

\* registered_users is empty exactly while the session has logged no SUCCESS:
\* the first SUCCESS of a session is that of a registration.
C17_EmptyUntilSuccess ==
    \A s \in Sessions : (registered_users[s] = <<>>) <=> (logged[s]["SUCCESS"] = 0)

\* A step keeps every user the session holds, and a step that logs SKIP is
\* taken with no user held and no SUCCESS logged.
C17_Step ==
    \A s \in Sessions :
        /\ Len(registered_users'[s]) >= Len(registered_users[s])
        /\ SubSeq(registered_users'[s], 1, Len(registered_users[s])) = registered_users[s]
        /\ logged'[s]["SKIP"] > logged[s]["SKIP"] =>
              /\ registered_users[s] = <<>> /\ registered_users'[s] = <<>>
              /\ logged[s]["SUCCESS"] = 0

\* C17: registered_users only grows within a session, so once a registration
\* of the session has succeeded no later login of that session is a SKIP:
\* SKIP occurs only before the session's first successful registration.
C17_NoSkipAfterSuccess == [](C17_EmptyUntilSuccess) /\ [][C17_Step]_vars

\* A session that skipped both logins after a failed registration and then
\* registered a user.
C17_Witness ==
    \E s \in Sessions :
        /\ logged[s]["SKIP"] = 2
        /\ registered_users[s] # <<>>
        /\ last.session = s /\ last.scenario = "Registration"

RECURSIVE SumTo(_, _)
\* f[1] + ... + f[n]
SumTo(f, n) == IF n = 0 THEN 0 ELSE f[n] + SumTo(f, n - 1)

LocalTotal == SumTo([s \in Sessions |-> stats[s].total_requests], NumSessions)

LocalFailed == SumTo([s \in Sessions |-> stats[s].failed_requests], NumSessions)

Skipped == SumTo([s \in Sessions |-> logged[s]["SKIP"]], NumSessions)

\* No scenario is mid-execution.
Quiescent == \A s \in Sessions : ~inflight[s].sent

\* C18: whenever no scenario is mid-execution, the aggregate's failure count
\* is the sum of the sessions' failed_requests and its request count is the
\* sum of their total_requests minus the number of SKIP outcomes logged; the
\* failure percentage of the report, failures over requests of the aggregate,
\* then equals that of the session-local counters only if no login was skipped.
C18_AggregateIsLocalMinusSkips ==
    Quiescent =>
        /\ env.num_failures = LocalFailed
        /\ env.num_requests = LocalTotal - Skipped
        /\ (env.num_requests > 0 /\ env.num_failures * LocalTotal = LocalFailed * env.num_requests)
              => Skipped = 0

\* Two sessions at rest, one of which skipped a login after a registration
\* that did not succeed while the other completed requests.
C18_Witness ==
    /\ Quiescent
    /\ Skipped >= 1 /\ env.num_failures >= 1 /\ env.num_requests >= 2
    /\ \E s, t \in Sessions :
          /\ logged[s]["SKIP"] >= 1
          /\ logged[t]["SKIP"] = 0 /\ stats[t].total_requests >= 1

====
